---- MODULE Spec2Model ----
(***************************************************************************)
(* Model of src/app.py: the humanize pipeline (humanize_pipeline), its     *)
(* three adapters (translate, groq_rewrite / grammar_fix, detect_ai) and   *)
(* the form handler process_text that calls the pipeline and then the      *)
(* detector once more.                                                     *)
(*                                                                         *)
(* A text is abstracted to [body, pad]: body 0 is the text without any     *)
(* non-blank character, pad says whether it carries leading or trailing    *)
(* whitespace (what str.strip() removes).  The external services are       *)
(* opaque: every call gets a response drawn from the responses the service *)
(* can give (a value, or one of the failures the adapter's try/except      *)
(* sees).                                                                  *)
(***************************************************************************)
EXTENDS Integers, Sequences, FiniteSets, TLC

\* ------------------------------------------------------------ bounds
MaxBody == 1
MaxRetries == 3
MaxConcRetries == 1

\* ------------------------------------------------------------ constants
DefaultMaxRetries == 3

Invs == {1, 2}

Texts == [body : 0..MaxBody, pad : BOOLEAN]
EmptyText == [body |-> 0, pad |-> FALSE]

\* str.strip() of the generated content (line 69)
strip(t) == [body |-> t.body, pad |-> FALSE]

\* max_retries values a caller passes: negative and zero budgets included
RetryValues == (0 - 1)..MaxRetries

SYSTEM_HUMANIZER == "SYSTEM_HUMANIZER+extra"
SYSTEM_GRAMMAR == "SYSTEM_GRAMMAR"

\* ------------------------------------------------------------ services
\* What GoogleTranslator(...).translate(text) does: returns a text or raises.
TranslateResponses ==
    {[kind |-> "raise", value |-> EmptyText]}
        \cup {[kind |-> "text", value |-> t] : t \in Texts}

\* What groq_client.chat.completions.create(...) gives: raises, a completion
\* whose content is a text, or a completion whose content is None.
GroqResponses ==
    {[kind |-> "raise", content |-> EmptyText],
     [kind |-> "none", content |-> EmptyText]}
        \cup {[kind |-> "content", content |-> t] : t \in Texts}

\* What requests.post(...) gives: raises (transport, timeout), or a response
\* with a status code and a body; the body's data.isHuman is missing, not
\* convertible by int(), or an integer.
DetectResponses ==
    {[kind |-> "raise", status |-> 0, field |-> "missing", isHuman |-> 0],
     [kind |-> "http", status |-> 500, field |-> "int", isHuman |-> 1],
     [kind |-> "http", status |-> 200, field |-> "missing", isHuman |-> 0],
     [kind |-> "http", status |-> 200, field |-> "nonint", isHuman |-> 0]}
        \cup {[kind |-> "http", status |-> 200, field |-> "int", isHuman |-> n] :
                n \in {0, 1, 2}}

\* ------------------------------------------------------------ adapters
\* Each adapter yields [raised, value, fault]: raised says an exception left
\* the adapter; fault names what went wrong inside it ("none": the service
\* call succeeded and no fallback was taken).

\* translate with the try/except left out: the translator's exception escapes
translateNoCatch(text, src, target, resp) ==
    IF resp.kind = "raise"
    THEN [raised |-> TRUE, value |-> text, fault |-> "raise"]
    ELSE [raised |-> FALSE, value |-> resp.value, fault |-> "none"]

\* translate whose fallback is the empty string
translateEmptyFallback(text, src, target, resp) ==
    IF resp.kind = "raise"
    THEN [raised |-> FALSE, value |-> EmptyText, fault |-> "raise"]
    ELSE [raised |-> FALSE, value |-> resp.value, fault |-> "none"]

\* lines 36-41
translate(text, src, target, resp) ==
    IF resp.kind = "raise"
    THEN [raised |-> FALSE, value |-> text, fault |-> "raise"]
    ELSE [raised |-> FALSE, value |-> resp.value, fault |-> "none"]

\* groq_rewrite whose fallback strips the text it was given
groq_rewriteStripFallback(text, system_msg, temperature, resp) ==
    CASE resp.kind = "content" ->
            [raised |-> FALSE, value |-> strip(resp.content), fault |-> "none"]
      [] resp.kind = "none" ->
            [raised |-> FALSE, value |-> strip(text), fault |-> "nocontent"]
      [] OTHER ->
            [raised |-> FALSE, value |-> strip(text), fault |-> "raise"]

\* groq_rewrite whose fallback is the empty string
groq_rewriteEmptyFallback(text, system_msg, temperature, resp) ==
    CASE resp.kind = "content" ->
            [raised |-> FALSE, value |-> strip(resp.content), fault |-> "none"]
      [] resp.kind = "none" ->
            [raised |-> FALSE, value |-> EmptyText, fault |-> "nocontent"]
      [] OTHER ->
            [raised |-> FALSE, value |-> EmptyText, fault |-> "raise"]

\* lines 60-72: content None has no strip(), which raises inside the try
groq_rewrite(text, system_msg, temperature, resp) ==
    CASE resp.kind = "content" ->
            [raised |-> FALSE, value |-> strip(resp.content), fault |-> "none"]
      [] resp.kind = "none" ->
            [raised |-> FALSE, value |-> text, fault |-> "nocontent"]
      [] OTHER ->
            [raised |-> FALSE, value |-> text, fault |-> "raise"]

\* lines 74-75
grammar_fix(text, resp) == groq_rewrite(text, SYSTEM_GRAMMAR, 8, resp)

\* detect_ai failing open: any failure counts as "human"
detect_aiFailOpen(text, resp) ==
    IF resp.kind = "raise"
    THEN [raised |-> FALSE, value |-> TRUE, fault |-> "raise"]
    ELSE IF resp.status = 200
         THEN CASE resp.field = "int" ->
                     [raised |-> FALSE, value |-> (resp.isHuman # 0), fault |-> "none"]
                [] resp.field = "missing" ->
                     [raised |-> FALSE, value |-> TRUE, fault |-> "missing"]
                [] OTHER ->
                     [raised |-> FALSE, value |-> TRUE, fault |-> "nonint"]
         ELSE [raised |-> FALSE, value |-> TRUE, fault |-> "status"]

\* detect_ai reading the body whatever the status code
detect_aiIgnoreStatus(text, resp) ==
    IF resp.kind = "raise"
    THEN [raised |-> FALSE, value |-> FALSE, fault |-> "raise"]
    ELSE CASE resp.field = "int" ->
                [raised |-> FALSE, value |-> (resp.isHuman # 0), fault |-> "none"]
           [] resp.field = "missing" ->
                [raised |-> FALSE, value |-> FALSE, fault |-> "missing"]
           [] OTHER ->
                [raised |-> FALSE, value |-> FALSE, fault |-> "nonint"]

\* lines 44-57
detect_ai(text, resp) ==
    IF resp.kind = "raise"
    THEN [raised |-> FALSE, value |-> FALSE, fault |-> "raise"]
    ELSE IF resp.status = 200
         THEN CASE resp.field = "int" ->
                     [raised |-> FALSE, value |-> (resp.isHuman # 0), fault |-> "none"]
                [] resp.field = "missing" ->
                     [raised |-> FALSE, value |-> FALSE, fault |-> "missing"]
                [] OTHER ->
                     [raised |-> FALSE, value |-> FALSE, fault |-> "nonint"]
         ELSE [raised |-> FALSE, value |-> FALSE, fault |-> "status"]

\* ------------------------------------------------------------ state
VARIABLES
    req,         \* per invocation: who calls, with which arguments
    pc,          \* per invocation: position in humanize_pipeline / process_text
    final_text,  \* per frame: local final_text of humanize_pipeline
    attempt,     \* per frame: local attempt
    translated,  \* per frame: local translated
    result,      \* per invocation: value humanize_pipeline returned
    is_human,    \* per invocation: process_text's is_human
    last,        \* per invocation: the latest adapter call and what it returned
    ncalls,      \* per invocation: adapter calls issued so far, by call site
    humOut,      \* per invocation: what the latest humanize rewrite returned
    fwd,         \* per invocation: the forward translate call of the attempt in
                 \* progress (NoCall between attempts)
    anyOk,       \* per invocation: some adapter call of the pipeline succeeded
    det,         \* TRUE: the services are functions of their arguments
    svc          \* the services' behaviour when det

vars == <<req, pc, final_text, attempt, translated, result, is_human,
          last, ncalls, humOut, fwd, anyOk, det, svc>>

\* one frame for all invocations: the locals made module-level variables
FrameShared(i) == 1

\* The frame holding an invocation's locals: every call has its own.
Frame(i) == i

Sites == {"forward", "back", "humanize", "detect", "grammar", "final_detect"}

\* no answer of the detection service
NoResponse == [kind |-> "none", status |-> 0, field |-> "missing", isHuman |-> 0]

NoCall == [site |-> "none", attempt |-> 0, arg |-> EmptyText, ret |-> EmptyText,
           verdict |-> FALSE, ok |-> FALSE, fault |-> "none", resp |-> NoResponse]

ZeroCalls == [s \in Sites |-> 0]

Requests ==
    [caller : {"direct"}, text : Texts, src_lang : {"en"}, target_lang : {"ar"},
     max_retries : RetryValues]
    \cup
    [caller : {"process_text"}, text : Texts, src_lang : {"en"}, target_lang : {"fr"},
     max_retries : {DefaultMaxRetries}]

\* Requests in progress at the same time: form posts, and direct calls with a
\* small budget.
ConcRequests ==
    [caller : {"direct"}, text : Texts, src_lang : {"en"}, target_lang : {"ar"},
     max_retries : 0..MaxConcRetries]
    \cup
    [caller : {"process_text"}, text : Texts, src_lang : {"en"}, target_lang : {"fr"},
     max_retries : {DefaultMaxRetries}]

NoRequest == [caller |-> "none", text |-> EmptyText, src_lang |-> "en",
              target_lang |-> "ar", max_retries |-> 0]

\* -------------------------------------------------- deterministic services
\* A service that is a function of its arguments, named by a small profile.
Profiles ==
    [translator : {"down", "garble"},
     groq : {"down", "rewrite"},
     detector : {"down", "strict"}]

NoProfile == [translator |-> "down", groq |-> "down", detector |-> "down"]

Next1(b) == (b + 1) % (MaxBody + 1)

SvcTranslate(p, text, src, target) ==
    CASE p.translator = "down" -> [kind |-> "raise", value |-> EmptyText]
      [] OTHER -> [kind |-> "text",
                   value |-> IF target = "en"
                             THEN [body |-> text.body, pad |-> TRUE]
                             ELSE [body |-> Next1(text.body), pad |-> text.pad]]

SvcGroq(p, text, system_msg) ==
    CASE p.groq = "down" -> [kind |-> "raise", content |-> EmptyText]
      [] OTHER -> [kind |-> "content",
                   content |-> IF system_msg = SYSTEM_GRAMMAR
                               THEN [body |-> text.body, pad |-> TRUE]
                               ELSE [body |-> Next1(text.body), pad |-> TRUE]]

SvcDetect(p, text) ==
    CASE p.detector = "down" ->
            [kind |-> "raise", status |-> 0, field |-> "missing", isHuman |-> 0]
      [] OTHER ->
            [kind |-> "http", status |-> 200, field |-> "int",
             isHuman |-> IF text.body = 0 THEN 1 ELSE 0]

TranslateAnswers(text, src, target) ==
    IF det THEN {SvcTranslate(svc, text, src, target)} ELSE TranslateResponses

GroqAnswers(text, system_msg) ==
    IF det THEN {SvcGroq(svc, text, system_msg)} ELSE GroqResponses

DetectAnswers(text) ==
    IF det THEN {SvcDetect(svc, text)} ELSE DetectResponses

\* ------------------------------------------------------------ initial states
InitFrames ==
    /\ pc = [i \in Invs |-> IF req[i].caller = "none" THEN "unused" ELSE "idle"]
    /\ final_text = [f \in Invs |-> EmptyText]
    /\ attempt = [f \in Invs |-> 0]
    /\ translated = [f \in Invs |-> EmptyText]
    /\ result = [i \in Invs |-> EmptyText]
    /\ is_human = [i \in Invs |-> FALSE]
    /\ last = [i \in Invs |-> NoCall]
    /\ ncalls = [i \in Invs |-> ZeroCalls]
    /\ humOut = [i \in Invs |-> EmptyText]
    /\ fwd = [i \in Invs |-> NoCall]
    /\ anyOk = [i \in Invs |-> FALSE]

\* One request, served by services that may answer differently each time.
Init ==
    /\ \E r \in Requests : req = [i \in Invs |-> IF i = 1 THEN r ELSE NoRequest]
    /\ det = FALSE
    /\ svc = NoProfile
    /\ InitFrames

\* Two requests in progress at once, served by services that are functions
\* of their arguments.
InitConc ==
    /\ req \in [Invs -> ConcRequests]
    /\ det = TRUE
    /\ svc \in Profiles
    /\ InitFrames

\* ------------------------------------------------------------ steps
\* The record of one adapter call: where it was made, in which attempt, what
\* it was given and what it returned (a text, or the detector's verdict with
\* the detection service's answer behind it).
CallRec(site, a, arg, r, resp) ==
    [site |-> site, attempt |-> a, arg |-> arg,
     ret |-> IF site \in {"detect", "final_detect"} THEN EmptyText ELSE r.value,
     verdict |-> IF site \in {"detect", "final_detect"} THEN r.value ELSE FALSE,
     ok |-> (r.fault = "none"), fault |-> r.fault,
     resp |-> IF site \in {"detect", "final_detect"} THEN resp ELSE NoResponse]

Record(i, site, arg, r, resp) ==
    /\ last' = [last EXCEPT ![i] = CallRec(site, attempt[Frame(i)], arg, r, resp)]
    /\ ncalls' = [ncalls EXCEPT ![i][site] = @ + 1]
    /\ anyOk' = [anyOk EXCEPT ![i] = @ \/ (site # "final_detect" /\ r.fault = "none")]

\* lines 78-81: the call binds the parameters, final_text = text, attempt = 0
Enter(i) ==
    /\ pc[i] = "idle"
    /\ final_text' = [final_text EXCEPT ![Frame(i)] = req[i].text]
    /\ attempt' = [attempt EXCEPT ![Frame(i)] = 0]
    /\ pc' = [pc EXCEPT ![i] = "loop"]
    /\ UNCHANGED <<req, fwd, translated, result, is_human, last, ncalls, humOut, anyOk,
                   det, svc>>

\* the loop condition off by one
LoopCondOffByOne(a, m) == a <= m

\* the loop condition giving up one attempt before the budget is spent
LoopCondOneShort(a, m) == a < m - 1

\* a loop that always makes a first attempt
LoopCondAtLeastOnce(a, m) == a < m \/ a = 0

\* a loop that stops one attempt late
LoopCondLate(a, m) == a < m + 1 /\ m > 0

\* the loop condition allowing one attempt more than the budget
LoopCondExtraAttempt(a, m) == a < m + 1

\* line 83: the loop condition
LoopCond(a, m) == a < m

\* lines 83-84: while attempt < max_retries: attempt += 1
LoopTest(i) ==
    /\ pc[i] = "loop"
    /\ IF LoopCond(attempt[Frame(i)], req[i].max_retries)
       THEN /\ attempt' = [attempt EXCEPT ![Frame(i)] = @ + 1]
            /\ pc' = [pc EXCEPT ![i] = "forward"]
       ELSE /\ attempt' = attempt
            /\ pc' = [pc EXCEPT ![i] = "grammar"]
    /\ UNCHANGED <<req, fwd, final_text, translated, result, is_human, last, ncalls,
                   humOut, anyOk, det, svc>>

\* every attempt translating the text the user gave
ForwardInputOriginal(i) == req[i].text

\* line 88: the text an attempt's forward translation is given
ForwardInput(i) == final_text[Frame(i)]

\* line 88: translated = translate(final_text, src_lang, target_lang)
TranslateForward(i) ==
    /\ pc[i] = "forward"
    /\ \E resp \in TranslateAnswers(ForwardInput(i), req[i].src_lang, req[i].target_lang) :
         LET r == translate(ForwardInput(i), req[i].src_lang, req[i].target_lang, resp)
         IN  IF r.raised
             THEN /\ pc' = [pc EXCEPT ![i] = "raised"]
                  /\ UNCHANGED <<translated, last, ncalls, anyOk, fwd>>
             ELSE /\ translated' = [translated EXCEPT ![Frame(i)] = r.value]
                  /\ Record(i, "forward", ForwardInput(i), r, resp)
                  /\ fwd' = [fwd EXCEPT ![i] =
                               CallRec("forward", attempt[Frame(i)], ForwardInput(i), r, resp)]
                  /\ pc' = [pc EXCEPT ![i] = "back"]
    /\ UNCHANGED <<req, final_text, attempt, result, is_human, humOut, det, svc>>

\* the back translation given the attempt's input instead of translated
BackInputUntranslated(i) == final_text[Frame(i)]

\* line 89: the text the back translation is given
BackInput(i) == translated[Frame(i)]

\* line 89: final_text = translate(translated, target_lang, src_lang)
TranslateBack(i) ==
    /\ pc[i] = "back"
    /\ \E resp \in TranslateAnswers(BackInput(i), req[i].target_lang, req[i].src_lang) :
         LET r == translate(BackInput(i), req[i].target_lang, req[i].src_lang, resp)
         IN  IF r.raised
             THEN /\ pc' = [pc EXCEPT ![i] = "raised"]
                  /\ UNCHANGED <<final_text, last, ncalls, anyOk>>
             ELSE /\ final_text' = [final_text EXCEPT ![Frame(i)] = r.value]
                  /\ Record(i, "back", BackInput(i), r, resp)
                  /\ pc' = [pc EXCEPT ![i] = "humanize"]
    /\ UNCHANGED <<req, fwd, attempt, translated, result, is_human, humOut, det, svc>>

\* lines 92-96: final_text = groq_rewrite(final_text, SYSTEM_HUMANIZER + ..., 1.6)
Humanize(i) ==
    /\ pc[i] = "humanize"
    /\ \E resp \in GroqAnswers(final_text[Frame(i)], SYSTEM_HUMANIZER) :
         LET r == groq_rewrite(final_text[Frame(i)], SYSTEM_HUMANIZER, 16, resp)
         IN  IF r.raised
             THEN /\ pc' = [pc EXCEPT ![i] = "raised"]
                  /\ UNCHANGED <<final_text, last, ncalls, anyOk, humOut>>
             ELSE /\ final_text' = [final_text EXCEPT ![Frame(i)] = r.value]
                  /\ humOut' = [humOut EXCEPT ![i] = r.value]
                  /\ Record(i, "humanize", final_text[Frame(i)], r, resp)
                  /\ pc' = [pc EXCEPT ![i] = "detect"]
    /\ UNCHANGED <<req, fwd, attempt, translated, result, is_human, det, svc>>

\* the verdict ignored: no break, the loop goes on
AfterDetectNoBreak(v) == "loop"

\* an approval returning at once instead of breaking to the grammar fix
AfterDetectReturn(v) == IF v THEN "return" ELSE "loop"

\* lines 99-103: where the verdict leads: break (to line 106) or the loop test
AfterDetect(v) == IF v THEN "grammar" ELSE "loop"

\* lines 99-103: if detect_ai(final_text): break, else go round the loop
Detect(i) ==
    /\ pc[i] = "detect"
    /\ \E resp \in DetectAnswers(final_text[Frame(i)]) :
         LET r == detect_ai(final_text[Frame(i)], resp)
         IN  IF r.raised
             THEN /\ pc' = [pc EXCEPT ![i] = "raised"]
                  /\ UNCHANGED <<last, ncalls, anyOk, fwd>>
             ELSE /\ Record(i, "detect", final_text[Frame(i)], r, resp)
                  /\ fwd' = [fwd EXCEPT ![i] = NoCall]
                  /\ pc' = [pc EXCEPT ![i] = AfterDetect(r.value)]
    /\ UNCHANGED <<req, final_text, attempt, translated, result, is_human, humOut,
                   det, svc>>

\* line 106: final_text = grammar_fix(final_text)
GrammarFix(i) ==
    /\ pc[i] = "grammar"
    /\ \E resp \in GroqAnswers(final_text[Frame(i)], SYSTEM_GRAMMAR) :
         LET r == grammar_fix(final_text[Frame(i)], resp)
         IN  IF r.raised
             THEN /\ pc' = [pc EXCEPT ![i] = "raised"]
                  /\ UNCHANGED <<final_text, last, ncalls, anyOk>>
             ELSE /\ final_text' = [final_text EXCEPT ![Frame(i)] = r.value]
                  /\ Record(i, "grammar", final_text[Frame(i)], r, resp)
                  /\ pc' = [pc EXCEPT ![i] = "return"]
    /\ UNCHANGED <<req, fwd, attempt, translated, result, is_human, humOut, det, svc>>

\* line 107: return final_text (to process_text line 120, or to a direct caller)
Return(i) ==
    /\ pc[i] = "return"
    /\ result' = [result EXCEPT ![i] = final_text[Frame(i)]]
    /\ pc' = [pc EXCEPT ![i] =
                IF req[i].caller = "process_text" THEN "final_detect" ELSE "done"]
    /\ UNCHANGED <<req, fwd, final_text, attempt, translated, is_human, last, ncalls,
                   humOut, anyOk, det, svc>>

\* the detector handed the text the user posted
FinalDetectArgOriginal(i) == req[i].text

\* line 121: the text process_text hands to the detector
FinalDetectArg(i) == result[i]

\* lines 121-130: is_human = detect_ai(final_text), then the response is rendered
FinalDetect(i) ==
    /\ pc[i] = "final_detect"
    /\ \E resp \in DetectAnswers(FinalDetectArg(i)) :
         LET r == detect_ai(FinalDetectArg(i), resp)
         IN  IF r.raised
             THEN /\ pc' = [pc EXCEPT ![i] = "raised"]
                  /\ UNCHANGED <<is_human, last, ncalls, anyOk>>
             ELSE /\ is_human' = [is_human EXCEPT ![i] = r.value]
                  /\ Record(i, "final_detect", FinalDetectArg(i), r, resp)
                  /\ pc' = [pc EXCEPT ![i] = "done"]
    /\ UNCHANGED <<req, fwd, final_text, attempt, translated, result, humOut, det, svc>>

Step(i) ==
    \/ Enter(i)
    \/ LoopTest(i)
    \/ TranslateForward(i)
    \/ TranslateBack(i)
    \/ Humanize(i)
    \/ Detect(i)
    \/ GrammarFix(i)
    \/ Return(i)
    \/ FinalDetect(i)

Next == \E i \in Invs : Step(i)

Spec == Init /\ [][Next]_vars

\* Every started call keeps running: the calls are blocking and return.
FairSpec == Init /\ [][Next]_vars /\ \A i \in Invs : WF_vars(Step(i))

SpecConc == InitConc /\ [][Next]_vars

\* ------------------------------------------------------------ properties
Max0(n) == IF n < 0 THEN 0 ELSE n

Active == {i \in Invs : req[i].caller # "none"}

Started(i) == pc[i] \notin {"unused", "idle"}

\* humanize_pipeline has returned
Returned(i) == pc[i] \in {"final_detect", "done"}

\* calls the pipeline has issued, the detector's included
PipelineCalls(i) ==
    ncalls[i]["forward"] + ncalls[i]["back"] + ncalls[i]["humanize"]
        + ncalls[i]["detect"] + ncalls[i]["grammar"]

\* calls to the translator and the rewriter
RewriteCalls(i) ==
    ncalls[i]["forward"] + ncalls[i]["back"] + ncalls[i]["humanize"]
        + ncalls[i]["grammar"]

\* every adapter call made for the request, process_text's included
AllCalls(i) == PipelineCalls(i) + ncalls[i]["final_detect"]

\* C1 -- Totality: whatever the input text, max_retries and the outcome of
\* each translate, rewrite and detect call, no exception leaves an adapter, so
\* no invocation is ever in the raised state, and what humanize_pipeline
\* returns is a text.
C1_Totality ==
    \A i \in Active :
        /\ pc[i] # "raised"
        /\ final_text[Frame(i)] \in Texts
        /\ Returned(i) => result[i] \in Texts

\* C1 witness: a run on the empty text has returned although its latest
\* call, the grammar rewrite, failed.
C1_Witness ==
    /\ pc[1] = "done"
    /\ req[1].text = EmptyText
    /\ last[1].site = "grammar"
    /\ last[1].fault = "raise"

\* C2 (as amended) -- every run reaches done, and the number of attempts
\* started never exceeds max_retries, or zero when max_retries is negative.
C2_Termination ==
    /\ <>(\A i \in Active : pc[i] = "done")
    /\ [](\A i \in Active : attempt[Frame(i)] <= Max0(req[i].max_retries))

\* C2 as stated: in every state of a started run the number of attempts
\* started is at most max_retries.
C2_AttemptsAtMostMaxRetries ==
    \A i \in Active : Started(i) => attempt[Frame(i)] <= req[i].max_retries

\* C2 witness: a run is done having used its whole budget of several attempts.
C2_Witness ==
    /\ pc[1] = "done"
    /\ req[1].max_retries >= 2
    /\ attempt[Frame(1)] = req[1].max_retries

\* C3 -- Early exit: once the detector has answered true on attempt k with
\* k < max_retries, the next call the pipeline issues is the grammar rewrite,
\* and from the grammar rewrite on the pipeline issues no translate,
\* humanize, detect or further grammar call.
C3_EarlyExit ==
    [][\A i \in Active :
        /\ (/\ last[i].site = "detect"
            /\ last[i].verdict
            /\ last[i].attempt < req[i].max_retries
            /\ PipelineCalls(i)' # PipelineCalls(i))
           => /\ last'[i].site = "grammar"
              /\ ncalls'[i] = [ncalls[i] EXCEPT !["grammar"] = 1]
              /\ attempt'[Frame(i)] = last[i].attempt
        /\ ncalls[i]["grammar"] >= 1 => PipelineCalls(i)' = PipelineCalls(i)
      ]_vars

\* C3 witness: the grammar rewrite has run after an approval on an attempt
\* before the last one allowed.
C3_Witness ==
    /\ pc[1] = "return"
    /\ last[1].site = "grammar"
    /\ attempt[Frame(1)] >= 1
    /\ attempt[Frame(1)] < req[1].max_retries

\* C4 (as amended) -- Fallback identity: as long as every call of a run has
\* failed, the working text equals the input text; when such a run returns
\* it has made max_retries attempts (none when max_retries is negative), one
\* round trip, humanize rewrite and detection each, and it returns the input.
C4_FallbackIdentity ==
    \A i \in Active :
        (Started(i) /\ ~anyOk[i]) =>
            /\ final_text[Frame(i)] = req[i].text
            /\ pc[i] \in {"back", "humanize"} => translated[Frame(i)] = req[i].text
            /\ last[i].site \in {"forward", "back", "humanize", "grammar"} =>
                  last[i].ret = last[i].arg
            /\ Returned(i) =>
                  /\ result[i] = req[i].text
                  /\ attempt[Frame(i)] = Max0(req[i].max_retries)
                  /\ ncalls[i]["forward"] = Max0(req[i].max_retries)
                  /\ ncalls[i]["back"] = Max0(req[i].max_retries)
                  /\ ncalls[i]["humanize"] = Max0(req[i].max_retries)
                  /\ ncalls[i]["detect"] = Max0(req[i].max_retries)
                  /\ ncalls[i]["grammar"] = 1

\* C4 as stated: a returned run whose every call failed has made exactly
\* max_retries attempts and returns the input text.
C4_AllFailMaxRetriesAttempts ==
    \A i \in Active :
        (Returned(i) /\ ~anyOk[i]) =>
            /\ attempt[Frame(i)] = req[i].max_retries
            /\ result[i] = req[i].text

\* C4 witness: a run on a padded, non-empty text has returned after several
\* attempts in which every call failed.
C4_Witness ==
    /\ Returned(1)
    /\ ~anyOk[1]
    /\ req[1].text = [body |-> 1, pad |-> TRUE]
    /\ ncalls[1]["detect"] >= 2

\* C5 (as amended) -- Bounded work: a run issues at most 3*max_retries + 1
\* calls to the translator and the rewriter (1 when max_retries is
\* negative): two translate calls and one humanize rewrite per attempt, and
\* exactly one grammar rewrite by the time it returns.
C5_BoundedWork ==
    \A i \in Active :
        /\ RewriteCalls(i) <= 3 * Max0(req[i].max_retries) + 1
        /\ RewriteCalls(i) = 3 * ncalls[i]["humanize"] + ncalls[i]["grammar"]
              + (IF pc[i] = "back" THEN 1 ELSE IF pc[i] = "humanize" THEN 2 ELSE 0)
        /\ Returned(i) => ncalls[i]["grammar"] = 1

\* C5 as stated, for the budgets the statement is meant for: with
\* max_retries >= 0 a run issues at most 2*max_retries + 2 calls to the
\* translator and the rewriter.
C5_AtMostTwoNPlusTwo ==
    \A i \in Active :
        req[i].max_retries >= 0 => RewriteCalls(i) <= 2 * req[i].max_retries + 2

\* C5 witness: a run with a budget of at least two attempts has returned
\* after 3*max_retries + 1 translator and rewriter calls.
C5_Witness ==
    /\ Returned(1)
    /\ req[1].max_retries >= 2
    /\ RewriteCalls(1) = 3 * req[1].max_retries + 1

\* C6 (as amended) -- an invocation issues at most 3*max_retries + 1 blocking
\* calls to the translator and the rewriter: at most max_retries forward
\* translations, max_retries back translations, max_retries humanize
\* rewrites and one grammar rewrite (with max_retries counted as 0 when
\* negative).
C6_RemoteCalls ==
    \A i \in Active :
        LET n == Max0(req[i].max_retries)
        IN  /\ ncalls[i]["forward"] <= n
            /\ ncalls[i]["back"] <= n
            /\ ncalls[i]["humanize"] <= n
            /\ ncalls[i]["grammar"] <= 1
            /\ ncalls[i]["forward"] + ncalls[i]["back"] <= 2 * attempt[Frame(i)]

\* C6 as stated, for the budgets the statement is meant for: with
\* max_retries >= 0 an invocation issues at most 2*max_retries + 1 translate,
\* humanize and grammar calls.
C6_AtMostTwoNPlusOne ==
    \A i \in Active :
        req[i].max_retries >= 0 => RewriteCalls(i) <= 2 * req[i].max_retries + 1

\* C6 witness: a form post is done after three round trips, three humanize
\* rewrites and the grammar rewrite.
C6_Witness ==
    /\ pc[1] = "done"
    /\ req[1].caller = "process_text"
    /\ ncalls[1]["forward"] = 3
    /\ ncalls[1]["back"] = 3
    /\ ncalls[1]["humanize"] = 3
    /\ ncalls[1]["grammar"] = 1

\* C7 -- Detector false-default: after a detect call of attempt k that failed
\* (transport error, non-200 status, indicator missing or not an integer)
\* the verdict is false and nothing is raised; the run is at the loop test,
\* or has started attempt k+1 with k < max_retries, or is at the grammar fix
\* with k = max_retries: a failed detect call never ends the loop early.
C7_DetectorFalseDefault ==
    \A i \in Active :
        (last[i].site = "detect" /\ ~last[i].ok) =>
            /\ ~last[i].verdict
            /\ last[i].fault \in {"raise", "status", "missing", "nonint"}
            /\ \/ pc[i] = "loop" /\ attempt[Frame(i)] = last[i].attempt
               \/ /\ pc[i] = "forward"
                  /\ attempt[Frame(i)] = last[i].attempt + 1
                  /\ last[i].attempt < req[i].max_retries
               \/ /\ pc[i] = "grammar"
                  /\ attempt[Frame(i)] = last[i].attempt
                  /\ last[i].attempt = req[i].max_retries

\* C7 witness: the detector's answer on attempt 1 lacked the indicator, and
\* attempt 2 has started.
C7_Witness ==
    /\ last[1].site = "detect"
    /\ last[1].fault = "missing"
    /\ last[1].attempt = 1
    /\ pc[1] = "forward"
    /\ attempt[Frame(1)] = 2

\* C8 -- Polish exactly once: the grammar rewrite is never called twice and
\* has been called once when the pipeline returns; it is called after the
\* last attempt, on what that attempt's humanize rewrite returned (on the
\* input when there was no attempt), and the pipeline returns what the
\* grammar rewrite returned.  With max_retries = 1 and an approval on
\* attempt 1 there is one humanize rewrite and one detection.
C8_PolishOnce ==
    \A i \in Active :
        /\ ncalls[i]["grammar"] <= 1
        /\ pc[i] \in {"return", "final_detect", "done"} => ncalls[i]["grammar"] = 1
        /\ ncalls[i]["grammar"] = 1 => pc[i] \in {"return", "final_detect", "done"}
        /\ last[i].site = "grammar" =>
              /\ last[i].attempt = attempt[Frame(i)]
              /\ attempt[Frame(i)] = ncalls[i]["humanize"]
              /\ last[i].arg = IF attempt[Frame(i)] >= 1 THEN humOut[i] ELSE req[i].text
              /\ pc[i] = "return" => final_text[Frame(i)] = last[i].ret
              /\ Returned(i) => result[i] = last[i].ret
              /\ req[i].max_retries = 1 =>
                    ncalls[i]["humanize"] <= 1 /\ ncalls[i]["detect"] <= 1
        /\ (Returned(i) /\ last[i].site # "grammar") =>
              last[i].site = "final_detect" /\ last[i].arg = result[i]

\* C8 witness: with max_retries = 1 the pipeline has returned the grammar
\* rewrite's answer, which differs from what the humanize rewrite produced,
\* which differs from the input.
C8_Witness ==
    /\ Returned(1)
    /\ req[1].max_retries = 1
    /\ last[1].site = "grammar"
    /\ last[1].ok
    /\ ncalls[1]["detect"] = 1
    /\ humOut[1] # req[1].text
    /\ last[1].arg = humOut[1]
    /\ result[1] # humOut[1]

\* C9 -- No detection after polish inside the pipeline: once the grammar
\* rewrite has been called the pipeline's detect count no longer changes;
\* process_text calls the detector exactly once more, after the pipeline has
\* returned, on the returned text, and is_human is that call's verdict; a
\* direct caller gets no such call.
C9_FinalDetect ==
    /\ [](\A i \in Active :
            /\ ncalls[i]["final_detect"] =
                  IF pc[i] = "done" /\ req[i].caller = "process_text" THEN 1 ELSE 0
            /\ ncalls[i]["detect"] <= attempt[Frame(i)]
            /\ last[i].site = "final_detect" =>
                  /\ pc[i] = "done"
                  /\ last[i].arg = result[i]
                  /\ is_human[i] = last[i].verdict
                  /\ result[i] = final_text[Frame(i)])
    /\ [][\A i \in Active :
            ncalls[i]["grammar"] >= 1 => ncalls'[i]["detect"] = ncalls[i]["detect"]]_vars

\* C9 witness: a form post whose loop ended early on an approval reports
\* is_human = FALSE, the verdict of the call made on the polished text, which
\* differs from the text the loop's detector approved.
C9_Witness ==
    /\ pc[1] = "done"
    /\ req[1].caller = "process_text"
    /\ attempt[Frame(1)] < DefaultMaxRetries
    /\ last[1].site = "final_detect"
    /\ last[1].ok
    /\ ~is_human[1]
    /\ result[1] # humOut[1]

\* ------------------------------------------------- one invocation on its own
\* The calls of the loop (lines 83-103) run from the loop test with a
\* attempts made and working text t, against services that are functions of
\* their arguments: the calls in order, the text the loop ends with and the
\* attempts made.
RECURSIVE AloneLoop(_, _, _, _)
AloneLoop(p, r, t, a) ==
    IF ~LoopCond(a, r.max_retries)
    THEN [calls |-> <<>>, text |-> t, attempt |-> a]
    ELSE LET f == translate(t, r.src_lang, r.target_lang,
                            SvcTranslate(p, t, r.src_lang, r.target_lang))
             b == translate(f.value, r.target_lang, r.src_lang,
                            SvcTranslate(p, f.value, r.target_lang, r.src_lang))
             h == groq_rewrite(b.value, SYSTEM_HUMANIZER, 16,
                               SvcGroq(p, b.value, SYSTEM_HUMANIZER))
             d == detect_ai(h.value, SvcDetect(p, h.value))
             four == <<CallRec("forward", a + 1, t, f, NoResponse),
                       CallRec("back", a + 1, f.value, b, NoResponse),
                       CallRec("humanize", a + 1, b.value, h, NoResponse),
                       CallRec("detect", a + 1, h.value, d, SvcDetect(p, h.value))>>
         IN  IF AfterDetect(d.value) = "grammar"
             THEN [calls |-> four, text |-> h.value, attempt |-> a + 1]
             ELSE LET rest == AloneLoop(p, r, h.value, a + 1)
                  IN  [calls |-> four \o rest.calls, text |-> rest.text,
                       attempt |-> rest.attempt]

\* humanize_pipeline (lines 78-107), and process_text's call after it (line
\* 121), run on their own: the calls in order and the text returned.
AloneRun(p, r) ==
    LET loop == AloneLoop(p, r, r.text, 0)
        g == grammar_fix(loop.text, SvcGroq(p, loop.text, SYSTEM_GRAMMAR))
        v == detect_ai(g.value, SvcDetect(p, g.value))
    IN  [calls |-> loop.calls
                     \o <<CallRec("grammar", loop.attempt, loop.text, g, NoResponse)>>
                     \o (IF r.caller = "process_text"
                         THEN <<CallRec("final_detect", loop.attempt, g.value, v,
                                        SvcDetect(p, g.value))>>
                         ELSE <<>>),
         result |-> g.value]

\* what an invocation owns: its position, its locals and what it returned
View(i) ==
    <<pc[i], final_text[Frame(i)], attempt[Frame(i)], translated[Frame(i)],
      result[i], is_human[i], last[i], ncalls[i], fwd[i]>>

\* C10 -- Independence of concurrent invocations: with services that are
\* functions of their arguments and two invocations interleaved call by
\* call, every step changes what one invocation owns and nothing of the
\* other, and each invocation issues, call for call, the calls it issues
\* when run on its own and returns the same text.
C10_Independence ==
    /\ [](\A i \in Active :
            LET run == AloneRun(svc, req[i])
                k == AllCalls(i)
            IN  /\ k <= Len(run.calls)
                /\ k >= 1 => last[i] = run.calls[k]
                /\ Returned(i) => result[i] = run.result
                /\ pc[i] = "done" => k = Len(run.calls))
    /\ [][\E i \in Invs : \A j \in Invs \ {i} : View(j)' = View(j)]_vars

\* C10 witness: two invocations are in the middle of different attempts on
\* different working texts, and every service is up.
C10_Witness ==
    /\ pc[1] = "humanize"
    /\ pc[2] = "detect"
    /\ attempt[Frame(1)] = 2
    /\ attempt[Frame(2)] = 1
    /\ final_text[Frame(1)] # final_text[Frame(2)]
    /\ req[1].text # req[2].text
    /\ svc = [translator |-> "garble", groq |-> "rewrite", detector |-> "strict"]

\* the text attempt a of invocation i starts from, as the claims have it:
\* the input for attempt 1, the previous humanize rewrite's answer after it
AttemptInput(i, a) == IF a <= 1 THEN req[i].text ELSE humOut[i]

\* C11 -- Attempts are chained: the forward translate call of attempt 1 is
\* given the input text, and that of every attempt i >= 2 is given what the
\* humanize rewrite of attempt i-1 returned, the text the detector rejected.
C11_Chained ==
    \A i \in Active :
        /\ pc[i] = "forward" =>
              /\ ForwardInput(i) = AttemptInput(i, attempt[Frame(i)])
              /\ attempt[Frame(i)] >= 2 =>
                    /\ last[i].site = "detect"
                    /\ ~last[i].verdict
                    /\ last[i].arg = humOut[i]
                    /\ last[i].attempt = attempt[Frame(i)] - 1
        /\ last[i].site = "forward" =>
              /\ last[i].arg = AttemptInput(i, last[i].attempt)
              /\ last[i] = fwd[i]

\* C11 witness: the forward translation of attempt 2 was given the humanize
\* rewrite's answer of attempt 1, which is not the input text.
C11_Witness ==
    /\ last[1].site = "forward"
    /\ last[1].attempt = 2
    /\ last[1].arg = humOut[1]
    /\ humOut[1] # req[1].text

\* C12 -- Call ordering: every step issues at most one call; a forward
\* translation follows no call or a rejecting detection and opens the next
\* attempt; the back translation follows the forward translation and takes
\* its answer, the humanize rewrite follows the back translation and takes
\* its answer, the detection follows the humanize rewrite and takes its
\* answer, all within the same attempt.
C12_CallOrder ==
    [][\A i \in Active :
        AllCalls(i)' # AllCalls(i) =>
            /\ AllCalls(i)' = AllCalls(i) + 1
            /\ last'[i].site = "forward" =>
                  /\ \/ last[i].site = "none"
                     \/ last[i].site = "detect" /\ ~last[i].verdict
                  /\ last'[i].attempt = last[i].attempt + 1
            /\ last'[i].site = "back" =>
                  /\ last[i].site = "forward"
                  /\ last'[i].arg = last[i].ret
                  /\ last'[i].attempt = last[i].attempt
            /\ last'[i].site = "humanize" =>
                  /\ last[i].site = "back"
                  /\ last'[i].arg = last[i].ret
                  /\ last'[i].attempt = last[i].attempt
            /\ last'[i].site = "detect" =>
                  /\ last[i].site = "humanize"
                  /\ last'[i].arg = last[i].ret
                  /\ last'[i].attempt = last[i].attempt
            /\ last'[i].site = "grammar" => last[i].site \in {"none", "detect"}
            /\ last'[i].site = "final_detect" => last[i].site = "grammar"
      ]_vars

\* C12 witness: a detection is about to be made on a humanize answer that
\* differs from the text humanized, the back translation of a forward
\* translation that differs from the attempt's input.
C12_Witness ==
    /\ pc[1] = "detect"
    /\ last[1].site = "humanize"
    /\ last[1].ret # last[1].arg
    /\ humOut[1] # translated[Frame(1)]
    /\ fwd[1].ret = translated[Frame(1)]
    /\ fwd[1].ret # fwd[1].arg
    /\ fwd[1].attempt = last[1].attempt

\* C13 -- Budget exhaustion: a rejecting detection on attempt k < max_retries
\* leaves the run at the loop test or in attempt k+1, never at the grammar
\* fix; the grammar fix follows a rejecting detection only on attempt
\* k = max_retries >= 1, when max_retries forward and back translations,
\* humanize rewrites and detections have been made, and it is given the
\* last attempt's text.
C13_BudgetExhaustion ==
    \A i \in Active :
        (last[i].site = "detect" /\ ~last[i].verdict) =>
            /\ last[i].attempt = attempt[Frame(i)] \/ pc[i] = "forward"
            /\ last[i].attempt < req[i].max_retries =>
                  \/ pc[i] = "loop"
                  \/ pc[i] = "forward" /\ attempt[Frame(i)] = last[i].attempt + 1
            /\ pc[i] = "grammar" =>
                  /\ req[i].max_retries >= 1
                  /\ attempt[Frame(i)] = req[i].max_retries
                  /\ ncalls[i]["forward"] = req[i].max_retries
                  /\ ncalls[i]["back"] = req[i].max_retries
                  /\ ncalls[i]["humanize"] = req[i].max_retries
                  /\ ncalls[i]["detect"] = req[i].max_retries
                  /\ ncalls[i]["grammar"] = 0
                  /\ final_text[Frame(i)] = humOut[i]
            /\ last[i].attempt = req[i].max_retries => pc[i] \in {"loop", "grammar"}

\* C13 witness: with a budget of at least two attempts the detector has
\* answered and rejected the last of them, and the run is at the grammar fix.
C13_Witness ==
    /\ pc[1] = "grammar"
    /\ last[1].site = "detect"
    /\ last[1].ok
    /\ ~last[1].verdict
    /\ req[1].max_retries >= 2
    /\ attempt[Frame(1)] = req[1].max_retries

\* C14 -- Detector adapter result: whatever the detection service answered,
\* detect_ai raised nothing and returned true exactly when the call
\* completed with status 200 and an indicator that is an integer other than
\* 0; a transport failure, another status, a missing or non-integer
\* indicator and the indicator 0 all gave false.
C14_DetectResult ==
    \A i \in Active :
        /\ pc[i] # "raised"
        /\ last[i].site \in {"detect", "final_detect"} =>
              /\ last[i].resp \in DetectResponses
              /\ last[i].verdict = (/\ last[i].resp.kind = "http"
                                    /\ last[i].resp.status = 200
                                    /\ last[i].resp.field = "int"
                                    /\ last[i].resp.isHuman # 0)
              /\ last[i].verdict => last[i].fault = "none"
              /\ last[i].site = "final_detect" => is_human[i] = last[i].verdict
              /\ (last[i].site = "detect" /\ last[i].verdict) => pc[i] = "grammar"

\* C14 witness: the detector answered 200 with the indicator 2, and the
\* verdict is true.
C14_Witness ==
    /\ last[1].site = "detect"
    /\ last[1].resp.status = 200
    /\ last[1].resp.field = "int"
    /\ last[1].resp.isHuman = 2
    /\ last[1].verdict
    /\ pc[1] = "grammar"

\* C15 -- Per-call identity fallback: a translate or rewrite call that
\* failed returned the text it was given; whether the call failed or not,
\* the run is at the next step of the same attempt, with the same attempt
\* counter, working on the text the call returned.
C15_IdentityFallback ==
    \A i \in Active :
        /\ (last[i].site \in {"forward", "back", "humanize", "grammar"} /\ ~last[i].ok)
              => last[i].ret = last[i].arg
        /\ last[i].site = "forward" =>
              /\ pc[i] = "back"
              /\ attempt[Frame(i)] = last[i].attempt
              /\ BackInput(i) = last[i].ret
        /\ last[i].site = "back" =>
              /\ pc[i] = "humanize"
              /\ attempt[Frame(i)] = last[i].attempt
              /\ final_text[Frame(i)] = last[i].ret
        /\ last[i].site = "humanize" =>
              /\ pc[i] = "detect"
              /\ attempt[Frame(i)] = last[i].attempt
              /\ final_text[Frame(i)] = last[i].ret
        /\ last[i].site = "grammar" =>
              /\ pc[i] \in {"return", "final_detect", "done"}
              /\ attempt[Frame(i)] = last[i].attempt
              /\ final_text[Frame(i)] = last[i].ret

\* C15 witness: the back translation of a padded, non-empty text failed in
\* attempt 2, and the run is about to humanize that very text.
C15_Witness ==
    /\ last[1].site = "back"
    /\ last[1].fault = "raise"
    /\ last[1].attempt = 2
    /\ last[1].arg = [body |-> 1, pad |-> TRUE]
    /\ pc[1] = "humanize"
    /\ final_text[Frame(1)] = last[1].arg

\* C16 -- Exact call counts: between attempts and after the loop a run that
\* has made k attempts has issued k forward and k back translations, k
\* humanize rewrites and k detections; when it returns it has issued one
\* grammar rewrite as well, 4k + 1 calls in all, and with max_retries >= 0
\* k <= max_retries, so at most 4*max_retries + 1 calls, 3*max_retries + 1
\* without the detections.
C16_ExactCounts ==
    \A i \in Active :
        LET k == attempt[Frame(i)]
        IN  /\ pc[i] \in {"loop", "grammar", "return", "final_detect", "done"} =>
                  /\ k >= 0
                  /\ ncalls[i]["forward"] = k
                  /\ ncalls[i]["back"] = k
                  /\ ncalls[i]["humanize"] = k
                  /\ ncalls[i]["detect"] = k
            /\ Returned(i) =>
                  /\ ncalls[i]["grammar"] = 1
                  /\ PipelineCalls(i) = 4 * k + 1
                  /\ RewriteCalls(i) = 3 * k + 1
                  /\ req[i].max_retries >= 0 =>
                        /\ k <= req[i].max_retries
                        /\ PipelineCalls(i) <= 4 * req[i].max_retries + 1
                        /\ RewriteCalls(i) <= 3 * req[i].max_retries + 1

\* C16 witness: a run with a budget of three attempts has returned after
\* two, having issued nine calls.
C16_Witness ==
    /\ Returned(1)
    /\ req[1].max_retries = 3
    /\ attempt[Frame(1)] = 2
    /\ PipelineCalls(1) = 9

\* C17 -- Zero retry budget: with max_retries <= 0 no attempt is started and
\* no translate, humanize or detect call is issued; the grammar rewrite is
\* called once, on the input text, and the run returns what it answered.
C17_ZeroBudget ==
    \A i \in Active :
        req[i].max_retries <= 0 =>
            /\ attempt[Frame(i)] = 0
            /\ pc[i] \notin {"forward", "back", "humanize", "detect", "raised"}
            /\ ncalls[i]["forward"] = 0
            /\ ncalls[i]["back"] = 0
            /\ ncalls[i]["humanize"] = 0
            /\ ncalls[i]["detect"] = 0
            /\ ncalls[i]["grammar"] = (IF pc[i] \in {"idle", "loop", "grammar"} THEN 0 ELSE 1)
            /\ last[i].site = "grammar" => last[i].arg = req[i].text
            /\ (Returned(i) /\ last[i].site = "grammar") => result[i] = last[i].ret

\* C17 witness: with max_retries = -1 the run has returned the grammar
\* rewrite's answer, which differs from the input.
C17_Witness ==
    /\ Returned(1)
    /\ req[1].max_retries = 0 - 1
    /\ last[1].site = "grammar"
    /\ last[1].ok
    /\ result[1] = last[1].ret
    /\ result[1] # req[1].text

\* C18 (as amended) -- Partial round-trip failure: when an attempt's forward
\* translation succeeded and its back translation failed, the humanize
\* rewrite is handed the forward translation's answer; and whenever the
\* forward translation failed and the back translation failed or returned
\* what it was given, the humanize rewrite is handed the attempt's input.
C18_PartialRoundTrip ==
    \A i \in Active :
        (pc[i] = "humanize" /\ last[i].site = "back") =>
            /\ fwd[i].attempt = last[i].attempt
            /\ last[i].arg = fwd[i].ret
            /\ (fwd[i].ok /\ ~last[i].ok) => final_text[Frame(i)] = fwd[i].ret
            /\ (~fwd[i].ok /\ (~last[i].ok \/ last[i].ret = last[i].arg)) =>
                  final_text[Frame(i)] = fwd[i].arg

\* C18 as stated, second half, for an attempt whose forward translation
\* changed the text: the round trip hands the attempt's input on unchanged
\* only when the forward translation failed and the back translation failed
\* or returned what it was given.
C18_InputKeptOnlyOnFailure ==
    \A i \in Active :
        (pc[i] = "humanize" /\ last[i].site = "back"
            /\ fwd[i].ret # fwd[i].arg
            /\ final_text[Frame(i)] = fwd[i].arg) =>
                /\ ~fwd[i].ok
                /\ ~last[i].ok \/ last[i].ret = last[i].arg

\* C18 witness: the forward translation changed the text, the back
\* translation failed, and the text about to be humanized is the forward
\* translation, not the attempt's input.
C18_Witness ==
    /\ pc[1] = "humanize"
    /\ last[1].site = "back"
    /\ fwd[1].ok
    /\ ~last[1].ok
    /\ fwd[1].ret # fwd[1].arg
    /\ final_text[Frame(1)] = fwd[1].ret

TypeOK ==
    /\ pc \in [Invs -> {"unused", "idle", "loop", "forward", "back", "humanize",
                        "detect", "grammar", "return", "final_detect", "done", "raised"}]
    /\ final_text \in [Invs -> Texts]
    /\ translated \in [Invs -> Texts]
    /\ result \in [Invs -> Texts]
    /\ is_human \in [Invs -> BOOLEAN]
    /\ attempt \in [Invs -> Nat]
====
